---- MODULE Spec2Model ----
(***************************************************************************)
(* A model of json-aggregator: the key-wise aggregation engine             *)
(* (aggregation.py, aggregate_json.py), the dictionary flattener and the   *)
(* multi-pattern file discovery (utils.py), and the command-line           *)
(* resolution of aggregation function names (aggregate_json.py, utils.py). *)
(*                                                                         *)
(* Python values are represented as follows.                               *)
(*   dict (insertion ordered)  a sequence of <<key, value>> pairs with     *)
(*                             pairwise distinct keys                      *)
(*   dict of results           a TLA+ function (dict equality in Python    *)
(*                             ignores insertion order)                    *)
(*   list                      a sequence                                  *)
(*   None                      the record PyNone                           *)
(*   a raised exception        a record [status |-> "error", exc |-> ...]  *)
(***************************************************************************)
EXTENDS Integers, Sequences, FiniteSets, TLC

VARIABLES
    dicts,            \* agg_values_by_key / merge_dicts: the documents
    agg_fns,          \* agg_values_by_key: per-key aggregation functions or None
    default_agg_fns,  \* agg_values_by_key: default aggregation functions or None
    merged,           \* outcome of aggregation.merge_dicts(dicts)
    out_lib,          \* outcome of aggregation.agg_values_by_key
    out_json,         \* outcome of aggregate_json.agg_values_by_key
    nested_dict,      \* flatten_dict: the nested dictionary d
    delimiter,        \* flatten_dict: the delimiter
    flat,             \* outcome of flatten_dict(d, delimiter=delimiter)
    reflat,           \* outcome of flatten_dict on the value of flat
    fs,               \* the paths under the root, in the order a traversal yields them
    patterns,         \* multi_pattern_glob: the glob patterns
    matching_files,   \* outcome of multi_pattern_glob(root, patterns)
    names,            \* agg_fns_from_names: the list of names
    fn_set,           \* outcome of agg_fns_from_names(AGG_FN_CHOICES, names)
    argv_a,           \* command line: the values of the -a options, in order
    argv_d,           \* command line: the values of the -d option, or None
    cli,              \* outcome of run_from_cli()
    agg_result,       \* outcome of agg_json_values_by_key(root, patterns, agg_fns, default_agg_fns)
    json_out,         \* outcome of aggregate_and_output_json, out_fname None
    contents,         \* collect_json_to_csv: the document in each file under the root
    table,            \* outcome of collect_json_to_csv: the table written
    pc                \* the call the caller makes next

aggVars == <<dicts, agg_fns, default_agg_fns, merged, out_lib, out_json>>
flattenVars == <<nested_dict, delimiter, flat, reflat>>
globVars == <<fs, patterns, matching_files>>
cliVars == <<names, fn_set, argv_a, argv_d, cli>>
fileVars == <<agg_result, json_out, contents, table>>
vars == <<aggVars, flattenVars, globVars, cliVars, fileVars, pc>>

----------------------------------------------------------------------------
(* Bounds of the model.                                                    *)

MaxDocs == 2
MaxEntries == 3
MaxPatterns == 2
MaxNames == 3
MaxValues == 2

DocKeys == {"a", "b"}
DocVals == {1, 2}

----------------------------------------------------------------------------
(* Python values.                                                          *)

PyNone == [tag |-> "None"]
IsNone(x) == x.tag = "None"

Pending == [status |-> "pending"]
Unused == [status |-> "unused"]
Raise(exc) == [status |-> "error", exc |-> exc]
Return(v) == [status |-> "ok", value |-> v]

\* Insertion-ordered dict: a sequence of <<key, value>> pairs.
DictKeys(d) == {d[i][1] : i \in DOMAIN d}
DictGet(d, k) == d[CHOOSE i \in DOMAIN d : d[i][1] = k][2]

\* d[k] = v on an insertion-ordered dict: an existing key keeps its place.
DictSet(d, k, v) ==
    IF k \in DictKeys(d)
    THEN [i \in DOMAIN d |-> IF d[i][1] = k THEN <<k, v>> ELSE d[i]]
    ELSE Append(d, <<k, v>>)

\* Mutant of DictFromPairs: the first pair of a key is kept.
RECURSIVE DictFromPairsKeepFirst(_, _)
DictFromPairsKeepFirst(acc, pairs) ==
    IF pairs = <<>> THEN acc
    ELSE DictFromPairsKeepFirst(
             IF Head(pairs)[1] \in DictKeys(acc) THEN acc
             ELSE Append(acc, Head(pairs)), Tail(pairs))

\* dict(pairs): later pairs overwrite earlier ones with the same key.
RECURSIVE DictFromPairs(_, _)
DictFromPairs(acc, pairs) ==
    IF pairs = <<>> THEN acc
    ELSE DictFromPairs(DictSet(acc, Head(pairs)[1], Head(pairs)[2]), Tail(pairs))

\* The function with no arguments (an empty result mapping, an empty
\* AggregationFunctions mapping).
EmptyMap == [x \in {} |-> 0]

\* m[k] = v on a result mapping.
MapSet(m, k, v) == [x \in (DOMAIN m) \cup {k} |-> IF x = k THEN v ELSE m[x]]

----------------------------------------------------------------------------
(* The aggregation functions (callables taking a list of values).          *)

RECURSIVE SeqSum(_)
SeqSum(s) == IF s = <<>> THEN 0 ELSE Head(s) + SeqSum(Tail(s))

SeqMin(s) == CHOOSE x \in {s[i] : i \in DOMAIN s} : \A j \in DOMAIN s : x <= s[j]
SeqMax(s) == CHOOSE x \in {s[i] : i \in DOMAIN s} : \A j \in DOMAIN s : x >= s[j]

identity(x) == x

\* Calling the callable fn on a list of values.
Apply(fn, values) ==
    CASE fn = "len" -> Len(values)
      [] fn = "sum" -> SeqSum(values)
      [] fn = "identity" -> identity(values)
      [] fn = "min" -> SeqMin(values)
      [] fn = "max" -> SeqMax(values)

\* {agg_fn_name: agg_fn(values) for agg_fn_name, agg_fn in key_agg_fns.items()}
ApplyAll(key_agg_fns, values) ==
    [name \in DOMAIN key_agg_fns.fns |-> Apply(key_agg_fns.fns[name], values)]

----------------------------------------------------------------------------
(* aggregation.merge_dicts                                                 *)

\* Mutant of MergeItems: merged[key] = [value] instead of appending.
RECURSIVE MergeItemsOverwrite(_, _)
MergeItemsOverwrite(acc, items) ==
    IF items = <<>> THEN acc
    ELSE MergeItemsOverwrite(DictSet(acc, Head(items)[1], <<Head(items)[2]>>), Tail(items))

\* for key, value in d.items(): merged[key].append(value)
RECURSIVE MergeItems(_, _)
MergeItems(acc, items) ==
    IF items = <<>> THEN acc
    ELSE LET key == Head(items)[1]
             value == Head(items)[2]
             old == IF key \in DictKeys(acc) THEN DictGet(acc, key) ELSE <<>>
         IN MergeItems(DictSet(acc, key, Append(old, value)), Tail(items))

\* for d in dicts: ...
RECURSIVE MergeLoop(_, _)
MergeLoop(acc, ds) ==
    IF ds = <<>> THEN acc
    ELSE MergeLoop(MergeItems(acc, Head(ds)), Tail(ds))

merge_dicts(ds) == MergeLoop(<<>>, ds)

----------------------------------------------------------------------------
(* agg_values_by_key, in aggregation.py and in aggregate_json.py.          *)
(* The outcome also counts the calls made to aggregation functions.        *)

\* Mutant of BothNone: the check is left out.
BothNoneUnchecked(fns, dflt) == FALSE

\* agg_fns is None and default_agg_fns is None
BothNone(fns, dflt) == IsNone(fns) /\ IsNone(dflt)

\* agg_fns = {} if agg_fns is None else agg_fns
OrEmpty(fns) == IF IsNone(fns) THEN EmptyMap ELSE fns.d

\* Mutant of Resolve: the default, when set, wins over the listed key.
ResolveDefaultFirst(fns, dflt, key) ==
    IF ~IsNone(dflt) THEN dflt ELSE IF key \in DOMAIN fns THEN fns[key] ELSE dflt

\* agg_fns.get(key, default_agg_fns)
Resolve(fns, dflt, key) == IF key \in DOMAIN fns THEN fns[key] ELSE dflt

AggOutcome(out, applied) == [status |-> "ok", value |-> out, applied |-> applied]

\* raise ValueError(...), after `applied` calls to aggregation functions
AggRaise(exc, applied) == [status |-> "error", exc |-> exc, applied |-> applied]

\* aggregation.py: for key, values in merge_dicts(dicts).items(): ...
RECURSIVE AggLibLoop(_, _, _, _, _)
AggLibLoop(out, applied, items, fns, dflt) ==
    IF items = <<>> THEN AggOutcome(out, applied)
    ELSE LET key == Head(items)[1]
             values == Head(items)[2]
             key_agg_fns == Resolve(fns, dflt, key)
         IN IF ~IsNone(key_agg_fns)
            THEN AggLibLoop(MapSet(out, key, ApplyAll(key_agg_fns, values)),
                            applied + Cardinality(DOMAIN key_agg_fns.fns),
                            Tail(items), fns, dflt)
            ELSE AggLibLoop(out, applied, Tail(items), fns, dflt)

agg_values_by_key_lib(ds, fns, dflt) ==
    IF BothNone(fns, dflt)
    THEN AggRaise("ValueError", 0)
    ELSE AggLibLoop(EmptyMap, 0, merge_dicts(ds), OrEmpty(fns), dflt)

\* Mutant of UnionOfKeys: the keys of the first document only.
KeysOfFirst(ds) == IF ds = <<>> THEN {} ELSE DictKeys(ds[1])

\* set().union(*dicts)
UnionOfKeys(ds) == UNION {DictKeys(ds[i]) : i \in DOMAIN ds}

\* Mutant of ValuesToAgg: the values are collected last document first.
RECURSIVE ValuesToAggReversed(_, _)
ValuesToAggReversed(ds, key) ==
    IF ds = <<>> THEN <<>>
    ELSE IF key \in DictKeys(Head(ds))
         THEN ValuesToAggReversed(Tail(ds), key) \o <<DictGet(Head(ds), key)>>
         ELSE ValuesToAggReversed(Tail(ds), key)

\* [d[key] for d in dicts if key in d]
RECURSIVE ValuesToAgg(_, _)
ValuesToAgg(ds, key) ==
    IF ds = <<>> THEN <<>>
    ELSE IF key \in DictKeys(Head(ds))
         THEN <<DictGet(Head(ds), key)>> \o ValuesToAgg(Tail(ds), key)
         ELSE ValuesToAgg(Tail(ds), key)

\* aggregate_json.py: for key in set().union(*dicts): ...
\* `order` is the order in which the set yields its elements.
RECURSIVE AggJsonLoop(_, _, _, _, _, _)
AggJsonLoop(out, applied, order, ds, fns, dflt) ==
    IF order = <<>> THEN AggOutcome(out, applied)
    ELSE LET key == Head(order)
             key_agg_fns == Resolve(fns, dflt, key)
         IN IF ~IsNone(key_agg_fns)
            THEN AggJsonLoop(MapSet(out, key, ApplyAll(key_agg_fns, ValuesToAgg(ds, key))),
                             applied + Cardinality(DOMAIN key_agg_fns.fns),
                             Tail(order), ds, fns, dflt)
            ELSE AggJsonLoop(out, applied, Tail(order), ds, fns, dflt)

\* Mutant of agg_values_by_key_json: the per-key functions are ignored.
agg_values_by_key_json_default_only(ds, fns, dflt, order) ==
    IF BothNone(fns, dflt)
    THEN AggRaise("ValueError", 0)
    ELSE AggJsonLoop(EmptyMap, 0, order, ds, EmptyMap, dflt)

agg_values_by_key_json(ds, fns, dflt, order) ==
    IF BothNone(fns, dflt)
    THEN AggRaise("ValueError", 0)
    ELSE AggJsonLoop(EmptyMap, 0, order, ds, OrEmpty(fns), dflt)

\* The orders in which a set can be iterated.
Orders(S) == {s \in [1..Cardinality(S) -> S] : \A i, j \in DOMAIN s : i # j => s[i] # s[j]}

----------------------------------------------------------------------------
(* Inputs of the aggregation engine.                                       *)

\* Insertion-ordered documents over DocKeys with values in DocVals.
Documents ==
    {d \in UNION {[1..n -> DocKeys \X DocVals] : n \in 0..Cardinality(DocKeys)} :
        \A i, j \in DOMAIN d : i # j => d[i][1] # d[j][1]}

DocLists == UNION {[1..n -> Documents] : n \in 0..MaxDocs}

Fns(f) == [tag |-> "fns", fns |-> f]

\* DEFAULT_AGG_FNS = {'list': identity}
DEFAULT_AGG_FNS == Fns([name \in {"list"} |-> "identity"])

\* default_agg_fns: None, an AggregationFunctions without functions, or the
\* default.
DefaultChoices == {PyNone, Fns(EmptyMap), DEFAULT_AGG_FNS}

\* What agg_fns gives for a key: None (drop) or an AggregationFunctions.
PerKeyChoices == {PyNone, Fns([name \in {"sum", "min"} |-> name])}

\* agg_fns: None, or an AggregationFunctionsByKey listing some of the keys.
AggFnsChoices ==
    {PyNone} \cup
    {[tag |-> "dict", d |-> f] :
        f \in UNION {[S -> PerKeyChoices] : S \in SUBSET DocKeys}}

InitAgg ==
    /\ dicts \in DocLists
    /\ agg_fns \in AggFnsChoices
    /\ default_agg_fns \in DefaultChoices
    /\ merged = Pending
    /\ out_lib = Pending
    /\ out_json = Pending
    /\ pc = "merge_dicts"
    /\ nested_dict = Unused /\ delimiter = Unused /\ flat = Unused /\ reflat = Unused
    /\ fs = Unused /\ patterns = Unused /\ matching_files = Unused
    /\ names = Unused /\ fn_set = Unused /\ argv_a = Unused /\ argv_d = Unused /\ cli = Unused
    /\ agg_result = Unused /\ json_out = Unused /\ contents = Unused /\ table = Unused

\* The caller runs the three functions on the same documents, one after
\* the other.
MergeDicts ==
    /\ pc = "merge_dicts"
    /\ merged' = Return(merge_dicts(dicts))
    /\ pc' = "aggregation.agg_values_by_key"
    /\ UNCHANGED <<fileVars, dicts, agg_fns, default_agg_fns, out_lib, out_json, flattenVars, globVars, cliVars>>

AggValuesByKeyLib ==
    /\ pc = "aggregation.agg_values_by_key"
    /\ out_lib' = agg_values_by_key_lib(dicts, agg_fns, default_agg_fns)
    /\ pc' = "aggregate_json.agg_values_by_key"
    /\ UNCHANGED <<fileVars, dicts, agg_fns, default_agg_fns, merged, out_json, flattenVars, globVars, cliVars>>

AggValuesByKeyJson ==
    /\ pc = "aggregate_json.agg_values_by_key"
    /\ \E order \in Orders(UnionOfKeys(dicts)) :
          out_json' = agg_values_by_key_json(dicts, agg_fns, default_agg_fns, order)
    /\ pc' = "done"
    /\ UNCHANGED <<fileVars, dicts, agg_fns, default_agg_fns, merged, out_lib, flattenVars, globVars, cliVars>>

NextAgg == MergeDicts \/ AggValuesByKeyLib \/ AggValuesByKeyJson

SpecAgg == InitAgg /\ [][NextAgg]_vars

----------------------------------------------------------------------------
(* Properties of the aggregation engine.                                   *)

\* The outcomes of the calls to agg_values_by_key made so far.
AggOutcomes == {o \in {out_lib, out_json} : o.status # "pending"}
AggResults == {o.value : o \in {o \in AggOutcomes : o.status = "ok"}}

\* The keys of the documents, and the documents that contain a key.
AllDocKeys == {k \in DocKeys : \E i \in DOMAIN dicts : \E j \in DOMAIN dicts[i] : dicts[i][j][1] = k}
Containing(k) == {i \in DOMAIN dicts : \E j \in DOMAIN dicts[i] : dicts[i][j][1] = k}
NthContaining(k, n) ==
    CHOOSE i \in Containing(k) : Cardinality({h \in Containing(k) : h < i}) = n - 1
ValueIn(i, k) == dicts[i][CHOOSE j \in DOMAIN dicts[i] : dicts[i][j][1] = k][2]

\* The values of k, one per document containing k, in document order.
ExpectedValues(k) == [n \in 1..Cardinality(Containing(k)) |-> ValueIn(NthContaining(k, n), k)]

\* Whether perKeySpecs lists k, and k's resolved spec.
Listed(k) == ~IsNone(agg_fns) /\ k \in DOMAIN agg_fns.d
SpecOf(k) == IF Listed(k) THEN agg_fns.d[k] ELSE default_agg_fns

\* C1: each key of the result of agg_values_by_key maps to a sub-mapping
\* whose names are exactly the function names of the key's resolved spec,
\* each name mapped to its function applied to the key's values taken from
\* the documents containing the key, in document order, without placeholder.
C1_ResultIsFunctionsOfValues ==
    \A out \in AggResults : \A k \in DOMAIN out :
        /\ ~IsNone(SpecOf(k))
        /\ DOMAIN out[k] = DOMAIN SpecOf(k).fns
        /\ \A name \in DOMAIN out[k] :
              out[k][name] = Apply(SpecOf(k).fns[name], ExpectedValues(k))

\* Both implementations returned; one key is agg_result by its own spec
\* over two documents with different values, another key by the default
\* spec over the only document that contains it.
C1_Witness ==
    /\ out_lib.status = "ok" /\ out_json.status = "ok"
    /\ Len(dicts) = 2
    /\ \E k \in DOMAIN out_lib.value :
          /\ Listed(k) /\ DOMAIN out_lib.value[k] = {"sum", "min"}
          /\ Cardinality(Containing(k)) = 2
          /\ ValueIn(1, k) > ValueIn(2, k)
    /\ \E k \in DOMAIN out_json.value :
          /\ ~Listed(k) /\ DOMAIN out_json.value[k] = {"list"}
          /\ Containing(k) = {2}

\* C2 as stated: the keys of the result are exactly the document keys whose
\* resolved spec is a non-empty function set.
C2_KeysHaveNonEmptySpec ==
    \A out \in AggResults :
        DOMAIN out = {k \in AllDocKeys : ~IsNone(SpecOf(k)) /\ DOMAIN SpecOf(k).fns # {}}

\* C2 as amended: the keys of the result are exactly the document keys whose
\* resolved spec is a function set, empty or not (a key resolved to drop or
\* to an unset default is absent); a key resolved to a function set without
\* functions maps to an empty sub-mapping; no documents give no keys.
C2_KeysHaveFunctionSet ==
    \A out \in AggResults :
        /\ DOMAIN out = {k \in AllDocKeys : ~IsNone(SpecOf(k))}
        /\ \A k \in DOMAIN out : DOMAIN SpecOf(k).fns = {} => DOMAIN out[k] = {}
        /\ dicts = <<>> => DOMAIN out = {}

\* Both implementations returned a result with a key whose resolved spec has
\* no functions, while another key is dropped and a third case is kept.
C2_Witness ==
    /\ out_lib.status = "ok" /\ out_json.status = "ok"
    /\ \E k \in DOMAIN out_lib.value : DOMAIN out_lib.value[k] = {}
    /\ \E k \in DOMAIN out_json.value : DOMAIN out_json.value[k] = {}
    /\ \E k \in AllDocKeys : k \notin DOMAIN out_lib.value /\ k \notin DOMAIN out_json.value

\* C3: a key listed in perKeySpecs takes its listed spec whatever the
\* default is: listed as drop it is absent, listed with a function set it
\* gets those functions and no others; a key not listed gets exactly the
\* default's functions and is absent when the default is unset.
C3_ListedKeyTakesPrecedence ==
    \A out \in AggResults : \A k \in AllDocKeys :
        /\ (Listed(k) /\ IsNone(agg_fns.d[k])) => k \notin DOMAIN out
        /\ (Listed(k) /\ ~IsNone(agg_fns.d[k])) =>
              /\ k \in DOMAIN out
              /\ out[k] = [name \in DOMAIN agg_fns.d[k].fns |->
                              Apply(agg_fns.d[k].fns[name], ExpectedValues(k))]
        /\ (~Listed(k) /\ IsNone(default_agg_fns)) => k \notin DOMAIN out
        /\ (~Listed(k) /\ ~IsNone(default_agg_fns)) =>
              /\ k \in DOMAIN out
              /\ out[k] = [name \in DOMAIN default_agg_fns.fns |->
                              Apply(default_agg_fns.fns[name], ExpectedValues(k))]

\* Under a default with functions, one key is listed as drop and absent,
\* one key is listed with other functions than the default's.
C3_Witness ==
    /\ out_lib.status = "ok" /\ out_json.status = "ok"
    /\ ~IsNone(default_agg_fns) /\ DOMAIN default_agg_fns.fns = {"list"}
    /\ \E k \in AllDocKeys : Listed(k) /\ IsNone(agg_fns.d[k]) /\ k \notin DOMAIN out_json.value
    /\ \E k \in AllDocKeys : Listed(k) /\ ~IsNone(agg_fns.d[k])
                             /\ DOMAIN out_lib.value[k] = {"sum", "min"}

\* C4: with perKeySpecs and defaultSpec both unset, agg_values_by_key fails
\* with the configuration error for every list of documents, before any
\* aggregation function is applied and without a result.
C4_BothUnsetFails ==
    (IsNone(agg_fns) /\ IsNone(default_agg_fns)) =>
        \A o \in AggOutcomes :
            /\ o.status = "error" /\ o.exc = "ValueError"
            /\ o.applied = 0
            /\ "value" \notin DOMAIN o

\* Both implementations were called with both specs unset on documents
\* that have keys.
C4_Witness ==
    /\ IsNone(agg_fns) /\ IsNone(default_agg_fns)
    /\ AllDocKeys # {}
    /\ out_lib.status = "error" /\ out_json.status = "error"

\* C5: merge_dicts returns a mapping whose keys are the union of the
\* documents' keys; the list of a key has one value per document containing
\* the key, the i-th being the value in the i-th such document.
C5_MergeGroupsValuesInOrder ==
    merged.status = "ok" =>
        /\ DictKeys(merged.value) = AllDocKeys
        /\ \A i, j \in DOMAIN merged.value : i # j => merged.value[i][1] # merged.value[j][1]
        /\ \A k \in AllDocKeys :
              /\ Len(DictGet(merged.value, k)) = Cardinality(Containing(k))
              /\ \A n \in 1..Cardinality(Containing(k)) :
                    DictGet(merged.value, k)[n] = ValueIn(NthContaining(k, n), k)

\* merge_dicts ran on two documents that share a key with different values
\* while a second key is in the second document only.
C5_Witness ==
    /\ merged.status = "ok"
    /\ Len(dicts) = 2
    /\ \E k \in AllDocKeys : Containing(k) = {1, 2} /\ ValueIn(1, k) # ValueIn(2, k)
    /\ \E k \in AllDocKeys : Containing(k) = {2}

\* C13: the agg_values_by_key of aggregation.py and the one of
\* aggregate_json.py agree on every list of documents and every specs: both
\* raise the configuration error or both return equal mappings, in whatever
\* order the set of keys is iterated.
C13_ImplementationsAgree ==
    pc = "done" =>
        /\ out_lib.status = out_json.status
        /\ out_lib.status = "error" =>
              /\ out_lib.exc = "ValueError" /\ out_json.exc = "ValueError"
              /\ BothNone(agg_fns, default_agg_fns)
        /\ out_lib.status = "ok" => out_lib.value = out_json.value

\* Both implementations returned a mapping with two keys, one aggregated
\* by its own functions and one by the default, over two documents that
\* hold their keys in different orders.
C13_Witness ==
    /\ pc = "done"
    /\ out_lib.status = "ok" /\ out_json.status = "ok"
    /\ Len(dicts) = 2 /\ Len(dicts[1]) = 2 /\ Len(dicts[2]) = 2
    /\ dicts[1][1][1] = dicts[2][2][1]
    /\ dicts[1][1][2] # dicts[2][2][2]
    /\ ~IsNone(agg_fns) /\ ~IsNone(default_agg_fns)
    /\ \E k \in AllDocKeys : Listed(k) /\ ~IsNone(agg_fns.d[k])
    /\ \E k \in AllDocKeys : ~Listed(k) /\ DOMAIN default_agg_fns.fns # {}
    /\ DOMAIN out_json.value = AllDocKeys /\ Cardinality(AllDocKeys) = 2

----------------------------------------------------------------------------
(* utils.flatten_dict_gen and utils.flatten_dict.                          *)
(* A value of a nested dictionary is [map |-> a dictionary] or             *)
(* [leaf |-> v], where v stands for a value that is no Mapping (a scalar,  *)
(* null or a list), written as its JSON text.  Keys are strings.           *)

IsMapping(v) == "map" \in DOMAIN v

Str(s) == [tag |-> "str", s |-> s]

\* Mutant of NewKey: parent_key defaults to '' and is always joined.
NewKeyAlwaysJoined(parent_key, delim, k) ==
    (IF IsNone(parent_key) THEN "" ELSE parent_key.s) \o delim \o k

\* parent_key + delimiter + k if parent_key is not None else k
NewKey(parent_key, delim, k) ==
    IF ~IsNone(parent_key) THEN parent_key.s \o delim \o k ELSE k

RECURSIVE flatten_dict_gen(_, _, _)
RECURSIVE flatten_dict(_, _, _)

\* The (key, value) pairs the generator yields, in order.
flatten_dict_gen(dct, parent_key, delim) ==
    IF dct = <<>> THEN <<>>
    ELSE LET k == Head(dct)[1]
             v == Head(dct)[2]
             new_key == NewKey(parent_key, delim, k)
         IN (IF IsMapping(v)
             THEN flatten_dict(v.map, Str(new_key), delim)
             ELSE << <<new_key, v>> >>)
            \o flatten_dict_gen(Tail(dct), parent_key, delim)

\* dict(flatten_dict_gen(d, parent_key, delimiter))
flatten_dict(dct, parent_key, delim) ==
    DictFromPairs(<<>>, flatten_dict_gen(dct, parent_key, delim))

----------------------------------------------------------------------------
(* Inputs of the flattener: the nested dictionaries with at most           *)
(* MaxEntries entries over all levels.                                     *)

NestedKeys == {"a", "b", "a.b"}
LeafValues == {[leaf |-> "1"], [leaf |-> "null"], [leaf |-> "[2]"]}
Delimiters == {".", "_"}

RECURSIVE NestedOfSize(_)
RECURSIVE ValuesOfSize(_)

\* The values holding m entries.
ValuesOfSize(m) ==
    IF m = 0 THEN LeafValues \cup {[map |-> <<>>]}
    ELSE {[map |-> x] : x \in NestedOfSize(m)}

\* The dictionaries holding n entries over all levels.
NestedOfSize(n) ==
    IF n = 0 THEN {<<>>}
    ELSE UNION {
            {<< <<k, v>> >> \o rest :
                k \in NestedKeys \ DictKeys(rest), v \in ValuesOfSize(m)}
            : <<m, rest>> \in UNION {{m} \X NestedOfSize(n - 1 - m) : m \in 0..(n - 1)}}

NestedDicts == UNION {NestedOfSize(n) : n \in 0..MaxEntries}

InitFlatten ==
    /\ nested_dict \in NestedDicts
    /\ delimiter \in Delimiters
    /\ flat = Pending
    /\ reflat = Pending
    /\ pc = "flatten_dict"
    /\ dicts = Unused /\ agg_fns = Unused /\ default_agg_fns = Unused
    /\ merged = Unused /\ out_lib = Unused /\ out_json = Unused
    /\ fs = Unused /\ patterns = Unused /\ matching_files = Unused
    /\ names = Unused /\ fn_set = Unused /\ argv_a = Unused /\ argv_d = Unused /\ cli = Unused
    /\ agg_result = Unused /\ json_out = Unused /\ contents = Unused /\ table = Unused

\* flatten_dict(d, delimiter=delimiter)
FlattenDict ==
    /\ pc = "flatten_dict"
    /\ flat' = Return(flatten_dict(nested_dict, PyNone, delimiter))
    /\ pc' = "flatten_dict again"
    /\ UNCHANGED <<fileVars, aggVars, globVars, cliVars, nested_dict, delimiter, reflat>>

\* flatten_dict(flat, delimiter=delimiter), on the dictionary just returned
FlattenFlattened ==
    /\ pc = "flatten_dict again"
    /\ reflat' = Return(flatten_dict(flat.value, PyNone, delimiter))
    /\ pc' = "done"
    /\ UNCHANGED <<fileVars, aggVars, globVars, cliVars, nested_dict, delimiter, flat>>

NextFlatten == FlattenDict \/ FlattenFlattened

SpecFlatten == InitFlatten /\ [][NextFlatten]_vars

----------------------------------------------------------------------------
(* Properties of the flattener.                                            *)

\* The non-mapping values of a dictionary with the key path leading to
\* each, in traversal order: a sequence of <<path, value>>.
RECURSIVE LeafPaths(_, _)
LeafPaths(dct, prefix) ==
    IF dct = <<>> THEN <<>>
    ELSE LET here == Append(prefix, Head(dct)[1])
             v == Head(dct)[2]
         IN (IF "leaf" \in DOMAIN v THEN << <<here, v>> >> ELSE LeafPaths(v.map, here))
            \o LeafPaths(Tail(dct), prefix)

\* k1 + delimiter + ... + kn
RECURSIVE Join(_, _)
Join(path, delim) ==
    IF Len(path) = 1 THEN path[1]
    ELSE path[1] \o delim \o Join(Tail(path), delim)

Leaves == LeafPaths(nested_dict, <<>>)
CompoundKey(i) == Join(Leaves[i][1], delimiter)

HasEntry(dct, k, v) == \E i \in DOMAIN dct : dct[i] = <<k, v>>

\* C6 as stated: flatten_dict(d) has, for every non-mapping value of d, an
\* entry under the joined key path with that value, and nothing else, for
\* every d, colliding compound keys included.
C6_EveryLeafUnderItsCompoundKey ==
    flat.status = "ok" =>
        /\ \A i \in DOMAIN Leaves : HasEntry(flat.value, CompoundKey(i), Leaves[i][2])
        /\ \A e \in DOMAIN flat.value :
              /\ ~IsMapping(flat.value[e][2])
              /\ \E i \in DOMAIN Leaves : flat.value[e] = <<CompoundKey(i), Leaves[i][2]>>

\* C6 as amended: flatten_dict(d) has exactly the compound keys of d's
\* non-mapping values, each once, and no mapping-valued entry; under a
\* compound key it holds the value of the last path, in traversal order,
\* that joins to it.  So every non-mapping value is found under its
\* compound key unless a later path joins to the same compound key.
C6_LastLeafUnderEachCompoundKey ==
    flat.status = "ok" =>
        /\ DictKeys(flat.value) = {CompoundKey(i) : i \in DOMAIN Leaves}
        /\ \A e, f \in DOMAIN flat.value : e # f => flat.value[e][1] # flat.value[f][1]
        /\ \A e \in DOMAIN flat.value : ~IsMapping(flat.value[e][2])
        /\ \A i \in DOMAIN Leaves :
              (\A j \in DOMAIN Leaves : j > i => CompoundKey(j) # CompoundKey(i))
                  => HasEntry(flat.value, CompoundKey(i), Leaves[i][2])

\* A dictionary was flattened in which a nested path and a later top-level
\* key join to the same compound key with different values; the flattened
\* dictionary holds the later one.
C6_Witness ==
    /\ flat.status = "ok"
    /\ \E i, j \in DOMAIN Leaves :
          /\ i < j /\ CompoundKey(i) = CompoundKey(j)
          /\ Len(Leaves[i][1]) = 2 /\ Len(Leaves[j][1]) = 1
          /\ Leaves[i][2] # Leaves[j][2]
          /\ flat.value = << <<CompoundKey(j), Leaves[j][2]>> >>

\* None of the values of d is a mapping.
IsFlat(dct) == \A i \in DOMAIN dct : ~IsMapping(dct[i][2])

\* C7: flatten_dict returns a flat mapping unchanged, also when its keys
\* contain the delimiter, and flattening a flattened dictionary returns it
\* unchanged.
C7_FlatUnchangedAndIdempotent ==
    /\ (flat.status = "ok" /\ IsFlat(nested_dict)) => flat.value = nested_dict
    /\ reflat.status = "ok" => reflat.value = flat.value

\* A nested dictionary was flattened twice: its flattening differs from it
\* and has a key containing the delimiter.
C7_Witness ==
    /\ reflat.status = "ok"
    /\ ~IsFlat(nested_dict)
    /\ \E e \in DOMAIN flat.value : \E i \in DOMAIN Leaves :
          flat.value[e][1] = CompoundKey(i) /\ Len(Leaves[i][1]) = 2
    /\ delimiter = "."
    /\ \E e \in DOMAIN flat.value : flat.value[e][1] = "a.b"

----------------------------------------------------------------------------
(* utils.multi_pattern_glob.                                               *)
(* A path relative to the root and a pattern are sequences of characters.  *)

\* Path.glob's matching of one path against one pattern: `*` matches any
\* run of characters, `?` any one character, any other character itself.
RECURSIVE GlobMatch(_, _)
GlobMatch(pattern, path) ==
    IF pattern = <<>> THEN path = <<>>
    ELSE IF Head(pattern) = "*"
         THEN GlobMatch(Tail(pattern), path)
              \/ (path # <<>> /\ GlobMatch(pattern, Tail(path)))
         ELSE /\ path # <<>>
              /\ (Head(pattern) = "?" \/ Head(pattern) = Head(path))
              /\ GlobMatch(Tail(pattern), Tail(path))

\* Path(path).glob(pattern): the matching paths, in traversal order.
RECURSIVE Glob(_, _)
Glob(paths, pattern) ==
    IF paths = <<>> THEN <<>>
    ELSE (IF GlobMatch(pattern, Head(paths)) THEN <<Head(paths)>> ELSE <<>>)
         \o Glob(Tail(paths), pattern)

\* Mutant of MultiGlobLoop: a path already found is not added again.
RECURSIVE MultiGlobLoopDedup(_, _, _)
MultiGlobLoopDedup(matching, paths, pats) ==
    IF pats = <<>> THEN matching
    ELSE MultiGlobLoopDedup(
             matching \o SelectSeq(Glob(paths, Head(pats)),
                                   LAMBDA f : \A i \in DOMAIN matching : matching[i] # f),
             paths, Tail(pats))

\* for pattern in patterns: matching_files.extend(Path(path).glob(pattern))
RECURSIVE MultiGlobLoop(_, _, _)
MultiGlobLoop(matching, paths, pats) ==
    IF pats = <<>> THEN matching
    ELSE MultiGlobLoop(matching \o Glob(paths, Head(pats)), paths, Tail(pats))

multi_pattern_glob(paths, pats) == MultiGlobLoop(<<>>, paths, pats)

----------------------------------------------------------------------------
(* Inputs of the file discovery.                                           *)

a_json == <<"a", ".", "j", "s", "o", "n">>
b_json == <<"b", ".", "j", "s", "o", "n">>
a_txt == <<"a", ".", "t", "x", "t">>
FileNames == {a_json, b_json, a_txt}

\* The root holds some of the files; a traversal yields them in some order.
FsChoices == UNION {Orders(S) : S \in SUBSET FileNames}

PatternChoices ==
    {<<"*", ".", "j", "s", "o", "n">>,
     <<"a", ".", "*">>,
     <<"*", ".", "c", "s", "v">>,
     <<"?", ".", "t", "x", "t">>}

PatternLists == UNION {[1..n -> PatternChoices] : n \in 0..MaxPatterns}

InitGlob ==
    /\ fs \in FsChoices
    /\ patterns \in PatternLists
    /\ matching_files = Pending
    /\ pc = "multi_pattern_glob"
    /\ dicts = Unused /\ agg_fns = Unused /\ default_agg_fns = Unused
    /\ merged = Unused /\ out_lib = Unused /\ out_json = Unused
    /\ nested_dict = Unused /\ delimiter = Unused /\ flat = Unused /\ reflat = Unused
    /\ names = Unused /\ fn_set = Unused /\ argv_a = Unused /\ argv_d = Unused /\ cli = Unused
    /\ agg_result = Unused /\ json_out = Unused /\ contents = Unused /\ table = Unused

MultiPatternGlob ==
    /\ pc = "multi_pattern_glob"
    /\ matching_files' = Return(multi_pattern_glob(fs, patterns))
    /\ pc' = "done"
    /\ UNCHANGED <<fileVars, aggVars, flattenVars, cliVars, fs, patterns>>

NextGlob == MultiPatternGlob

SpecGlob == InitGlob /\ [][NextGlob]_vars

----------------------------------------------------------------------------
(* Properties of the file discovery.                                       *)

\* The positions in fs of the paths matching the i-th pattern, their
\* number, and the number of matches of the patterns before the i-th.
MatchingAt(i) == {f \in DOMAIN fs : GlobMatch(patterns[i], fs[f])}
RECURSIVE MatchesBefore(_)
MatchesBefore(i) ==
    IF i = 1 THEN 0 ELSE MatchesBefore(i - 1) + Cardinality(MatchingAt(i - 1))
NthMatching(i, n) ==
    CHOOSE f \in MatchingAt(i) : Cardinality({g \in MatchingAt(i) : g < f}) = n - 1
Occurrences(seq, x) == Cardinality({i \in DOMAIN seq : seq[i] = x})

\* C8: multi_pattern_glob returns the match lists of the patterns one after
\* the other in the order of the patterns: its length is the sum of the
\* patterns' match counts, the matches of the i-th pattern follow those of
\* the patterns before it, in traversal order, a path matching m patterns
\* appears m times, and without any match the result is the empty list.
C8_MatchesConcatenatedInPatternOrder ==
    matching_files.status \notin {"pending", "unused"} =>
        /\ matching_files.status = "ok"
        /\ Len(matching_files.value) = MatchesBefore(Len(patterns) + 1)
        /\ \A i \in DOMAIN patterns : \A n \in 1..Cardinality(MatchingAt(i)) :
              matching_files.value[MatchesBefore(i) + n] = fs[NthMatching(i, n)]
        /\ \A f \in DOMAIN fs :
              Occurrences(matching_files.value, fs[f])
                  = Cardinality({i \in DOMAIN patterns : f \in MatchingAt(i)})
        /\ (\A i \in DOMAIN patterns : MatchingAt(i) = {}) => matching_files.value = <<>>

\* Two patterns were matched: the first matches two paths, one of which
\* the second matches too, beside a path only the second matches.
C8_Witness ==
    /\ matching_files.status = "ok"
    /\ Len(patterns) = 2
    /\ Cardinality(MatchingAt(1)) = 2
    /\ MatchingAt(1) \cap MatchingAt(2) # {}
    /\ MatchingAt(2) \ MatchingAt(1) # {}
    /\ Len(matching_files.value) = 4

----------------------------------------------------------------------------
(* aggregate_json: the registry of aggregation functions and               *)
(* agg_fns_from_names.  On the command line a string is a sequence of      *)
(* characters; Str(s) is a str, PyList(xs) a list.                         *)

PyList(xs) == [tag |-> "list", items |-> xs]

n_count == <<"c", "o", "u", "n", "t">>
n_sum == <<"s", "u", "m">>
n_list == <<"l", "i", "s", "t">>
n_min == <<"m", "i", "n">>
n_max == <<"m", "a", "x">>

\* The registry, without the functions that return floats (mean, median,
\* mode, std, var).
AGG_FN_CHOICES ==
    (n_count :> "len") @@ (n_sum :> "sum") @@ (n_list :> "identity")
        @@ (n_min :> "min") @@ (n_max :> "max")

DROP_KEYWORD == <<"d", "r", "o", "p">>

\* x in s, for strings
IsSubstring(x, s) ==
    \E i \in 0..(Len(s) - Len(x)) : SubSeq(s, i + 1, i + Len(x)) = x

\* x in v: an element of a list, a substring of a str
PyIn(x, v) ==
    IF v.tag = "list" THEN \E i \in DOMAIN v.items : v.items[i] = x
    ELSE IsSubstring(x, v.s)

\* len(v): the elements of a list, the characters of a str
PyLen(v) == IF v.tag = "list" THEN Len(v.items) ELSE Len(v.s)

\* for x in v: the elements of a list, the characters of a str
PyIter(v) == IF v.tag = "list" THEN v.items ELSE [i \in DOMAIN v.s |-> <<v.s[i]>>]

\* Mutant of DropCombined: drop is never taken to be combined.
DropCombinedNever(v) == FALSE

\* len(names) != 1
DropCombined(v) == PyLen(v) # 1

agg_fns_from_names(registry, v) ==
    IF IsNone(v) THEN Raise("TypeError")
    ELSE IF PyIn(DROP_KEYWORD, v)
    THEN IF DropCombined(v) THEN Raise("ValueError") ELSE Return(PyNone)
    ELSE LET it == PyIter(v)
         IN IF \E i \in DOMAIN it : it[i] \notin DOMAIN registry
            THEN Raise("KeyError")
            ELSE Return(Fns([fn_name \in {it[i] : i \in DOMAIN it} |-> registry[fn_name]]))

\* The names the command line accepts: those of the registry, and drop.
ConfiguredNames == (DOMAIN AGG_FN_CHOICES) \cup {DROP_KEYWORD}

NameLists == UNION {[1..n -> ConfiguredNames] : n \in 0..MaxNames}

InitNames ==
    /\ names \in NameLists
    /\ fn_set = Pending
    /\ pc = "agg_fns_from_names"
    /\ argv_a = Unused /\ argv_d = Unused /\ cli = Unused
    /\ dicts = Unused /\ agg_fns = Unused /\ default_agg_fns = Unused
    /\ merged = Unused /\ out_lib = Unused /\ out_json = Unused
    /\ nested_dict = Unused /\ delimiter = Unused /\ flat = Unused /\ reflat = Unused
    /\ fs = Unused /\ patterns = Unused /\ matching_files = Unused
    /\ agg_result = Unused /\ json_out = Unused /\ contents = Unused /\ table = Unused

AggFnsFromNames ==
    /\ pc = "agg_fns_from_names"
    /\ fn_set' = agg_fns_from_names(AGG_FN_CHOICES, PyList(names))
    /\ pc' = "done"
    /\ UNCHANGED <<fileVars, aggVars, flattenVars, globVars, names, argv_a, argv_d, cli>>

NextNames == AggFnsFromNames

SpecNames == InitNames /\ [][NextNames]_vars

----------------------------------------------------------------------------
(* Properties of agg_fns_from_names.                                       *)

DropAt == {i \in DOMAIN names : names[i] = DROP_KEYWORD}

\* C9: agg_fns_from_names fails with the configuration error when drop is
\* listed together with another entry (a second drop included), returns
\* the drop marker when the list is exactly [drop], and otherwise returns
\* the function set whose names are the listed names, each bound to the
\* registry's function of that name.
C9_DropAloneOrFunctions ==
    fn_set.status \notin {"pending", "unused"} =>
        /\ (DropAt # {} /\ Len(names) > 1) =>
              fn_set.status = "error" /\ fn_set.exc = "ValueError"
        /\ names = <<DROP_KEYWORD>> => fn_set.status = "ok" /\ IsNone(fn_set.value)
        /\ DropAt = {} =>
              /\ fn_set.status = "ok" /\ ~IsNone(fn_set.value)
              /\ DOMAIN fn_set.value.fns = {names[i] : i \in DOMAIN names}
              /\ \A i \in DOMAIN names :
                    fn_set.value.fns[names[i]] = AGG_FN_CHOICES[names[i]]

\* drop was listed after a function name and the call failed.
C9_Witness ==
    /\ fn_set.status = "error"
    /\ Len(names) = 2
    /\ names[1] = n_sum /\ names[2] = DROP_KEYWORD

----------------------------------------------------------------------------
(* utils.KeyValueAction, utils.read_matching_jsons and                     *)
(* aggregate_json.run_from_cli with the functions it calls.                *)

\* The first position of the character sep in s, 0 when there is none.
Find(s, sep) ==
    IF \E i \in DOMAIN s : s[i] = sep
    THEN CHOOSE i \in DOMAIN s : s[i] = sep /\ \A j \in 1..(i - 1) : s[j] # sep
    ELSE 0

\* s.split(sep, 1), for s containing sep
SplitOnce(s, sep) ==
    <<SubSeq(s, 1, Find(s, sep) - 1), SubSeq(s, Find(s, sep) + 1, Len(s))>>

\* s.split(sep)
RECURSIVE Split(_, _)
Split(s, sep) ==
    IF Find(s, sep) = 0 THEN <<s>>
    ELSE <<SubSeq(s, 1, Find(s, sep) - 1)>> \o Split(SubSeq(s, Find(s, sep) + 1, Len(s)), sep)

key_separator == "="
value_separator == ","

\* KeyValueAction.__call__ on the dictionary collected so far (None before
\* the first -a) and the value of one -a option; key_choices is None and
\* value_choices is the list of configured names.
KeyValueAction(collected, values, value_choices) ==
    LET items == IF IsNone(collected) THEN <<>> ELSE collected.d
    IN IF Find(values, key_separator) # 0
       THEN LET key == SplitOnce(values, key_separator)[1]
                vals == Split(SplitOnce(values, key_separator)[2], value_separator)
            IN IF \E i \in DOMAIN vals : vals[i] \notin value_choices
               THEN Raise("ArgumentError")
               ELSE Return([tag |-> "dict",
                            d |-> DictSet(items, key,
                                          IF Len(vals) = 1 THEN Str(vals[1]) ELSE PyList(vals))])
       ELSE Return([tag |-> "dict", d |-> DictSet(items, values, PyNone)])

\* parse_args: the -a options, one call of the action for each, in order.
RECURSIVE ParseAggFns(_, _, _)
ParseAggFns(collected, args, value_choices) ==
    IF args = <<>> THEN Return(collected)
    ELSE LET r == KeyValueAction(collected, Head(args), value_choices)
         IN IF r.status = "error" THEN r
            ELSE ParseAggFns(r.value, Tail(args), value_choices)

\* parse_args: -d takes one or more configured names, ['list'] by default.
ParseDefaultAggFns(arg, value_choices) ==
    IF IsNone(arg) THEN Return(PyList(<<n_list>>))
    ELSE IF arg.items = <<>> \/ \E i \in DOMAIN arg.items : arg.items[i] \notin value_choices
    THEN Raise("ArgumentError")
    ELSE Return(arg)

\* {key: agg_fns_from_names(agg_fn_choices, fn_names)
\*  for key, fn_names in args.agg_fns.items()}
RECURSIVE ResolveAggFns(_, _, _)
ResolveAggFns(out, items, registry) ==
    IF items = <<>> THEN Return([tag |-> "dict", d |-> out])
    ELSE LET r == agg_fns_from_names(registry, Head(items)[2])
         IN IF r.status = "error" THEN r
            ELSE ResolveAggFns(MapSet(out, Head(items)[1], r.value), Tail(items), registry)

\* The documents in the files under the root.
FileContents ==
    (a_json :> << <<<<"a">>, 1>>, <<<<"b">>, 2>> >>)
        @@ (b_json :> << <<<<"a">>, 3>> >>)
        @@ (a_txt :> << <<<<"b">>, 4>> >>)

\* [read_json(path) for path in multi_pattern_glob(root, patterns)]
read_matching_jsons(paths, pats) ==
    LET found == multi_pattern_glob(paths, pats)
    IN [i \in DOMAIN found |-> FileContents[found[i]]]

\* Mutant of agg_json_values_by_key: the documents go to agg_values_by_key
\* without the test for an empty list.
agg_json_values_by_key_unguarded(paths, pats, fns, dflt, order) ==
    LET r == agg_values_by_key_json(read_matching_jsons(paths, pats), fns, dflt, order)
    IN IF r.status = "error" THEN Raise(r.exc)
       ELSE [status |-> "ok", value |-> [tag |-> "dict", d |-> r.value], stderr |-> ""]

\* agg_json_values_by_key: None, with a message on stderr, when no file
\* matches; `order` is the order in which the set of keys is iterated.
agg_json_values_by_key(paths, pats, fns, dflt, order) ==
    LET json_dicts == read_matching_jsons(paths, pats)
    IN IF json_dicts = <<>>
       THEN [status |-> "ok", value |-> PyNone, stderr |-> "Found no files"]
       ELSE LET r == agg_values_by_key_json(json_dicts, fns, dflt, order)
            IN IF r.status = "error" THEN Raise(r.exc)
               ELSE [status |-> "ok", value |-> [tag |-> "dict", d |-> r.value], stderr |-> ""]

\* aggregate_and_output_json with out_fname None: what is printed.
aggregate_and_output_json(paths, pats, fns, dflt, order) ==
    LET aggregated == agg_json_values_by_key(paths, pats, fns, dflt, order)
    IN IF aggregated.status = "error" THEN aggregated
       ELSE [status |-> "ok", stdout |-> aggregated.value, stderr |-> aggregated.stderr]

\* run_from_cli: the outcome keeps the resolved functions beside the output.
run_from_cli(registry, a_args, d_arg, paths, pats, order) ==
    LET agg_fn_choices_names == (DOMAIN registry) \cup {DROP_KEYWORD}
        parsed_a == ParseAggFns(PyNone, a_args, agg_fn_choices_names)
        parsed_d == ParseDefaultAggFns(d_arg, agg_fn_choices_names)
    IN IF parsed_a.status = "error" \/ parsed_d.status = "error"
       THEN Raise("SystemExit")
       ELSE LET fns == IF IsNone(parsed_a.value) THEN Return(PyNone)
                       ELSE ResolveAggFns(EmptyMap, parsed_a.value.d, registry)
            IN IF fns.status = "error" THEN fns
               ELSE LET dflt == agg_fns_from_names(registry, parsed_d.value)
                    IN IF dflt.status = "error" THEN dflt
                       ELSE LET out == aggregate_and_output_json(paths, pats, fns.value,
                                                                 dflt.value, order)
                            IN IF out.status = "error" THEN out
                               ELSE [status |-> "ok", agg_fns |-> fns.value,
                                     default_agg_fns |-> dflt.value,
                                     stdout |-> out.stdout, stderr |-> out.stderr]

----------------------------------------------------------------------------
(* Inputs of the command line.                                             *)

CliKeys == {<<"a">>, <<"b">>}
CliNames == {n_sum, n_min, DROP_KEYWORD}

\* value_separator.join(vals)
RECURSIVE JoinValues(_)
JoinValues(vals) ==
    IF Len(vals) = 1 THEN vals[1]
    ELSE vals[1] \o <<value_separator>> \o JoinValues(Tail(vals))

\* KEY=V1,...,Vn with 1 to MaxValues names, and three other values of -a:
\* a key alone, an unknown name, no name.
KeyValueArgs ==
    {key \o <<key_separator>> \o JoinValues(vals) :
        key \in CliKeys, vals \in UNION {[1..n -> CliNames] : n \in 1..MaxValues}}
    \cup {<<"a">>, <<"a", "=", "x">>, <<"a", "=">>}

\* No -a option, one, or two.
ArgLists ==
    {<<>>} \cup {<<x>> : x \in KeyValueArgs} \cup {<<x, y>> : x, y \in KeyValueArgs}

\* No -d option, or -d with these names.
DefaultArgs == {PyNone, PyList(<<DROP_KEYWORD>>), PyList(<<n_list, n_max>>)}

\* --patterns keeps its default, ['*.json']
DefaultPatterns == << <<"*", ".", "j", "s", "o", "n">> >>

InitCli ==
    /\ argv_a \in ArgLists
    /\ argv_d \in DefaultArgs
    /\ fs \in {<<>>, <<a_json, a_txt, b_json>>}
    /\ patterns = DefaultPatterns
    /\ cli = Pending
    /\ pc = "run_from_cli"
    /\ names = Unused /\ fn_set = Unused /\ matching_files = Unused
    /\ dicts = Unused /\ agg_fns = Unused /\ default_agg_fns = Unused
    /\ merged = Unused /\ out_lib = Unused /\ out_json = Unused
    /\ nested_dict = Unused /\ delimiter = Unused /\ flat = Unused /\ reflat = Unused
    /\ agg_result = Unused /\ json_out = Unused /\ contents = Unused /\ table = Unused

RunFromCli ==
    /\ pc = "run_from_cli"
    /\ \E order \in Orders(UnionOfKeys(read_matching_jsons(fs, patterns))) :
          cli' = run_from_cli(AGG_FN_CHOICES, argv_a, argv_d, fs, patterns, order)
    /\ pc' = "done"
    /\ UNCHANGED <<fileVars, aggVars, flattenVars, fs, patterns, matching_files,
                   names, fn_set, argv_a, argv_d>>

NextCli == RunFromCli

SpecCli == InitCli /\ [][NextCli]_vars

----------------------------------------------------------------------------
(* Properties of the command line.                                         *)

\* The -a values of the form KEY=V1,...,Vn: the key and the names.
KeyOf(arg) == SubSeq(arg, 1, Find(arg, "=") - 1)
NamesOf(arg) == Split(SubSeq(arg, Find(arg, "=") + 1, Len(arg)), ",")

\* KEY=V1,...,Vn with n >= 1 names of the registry, or KEY=drop.
WellFormed(arg) ==
    /\ Find(arg, "=") # 0
    /\ \/ NamesOf(arg) = <<DROP_KEYWORD>>
       \/ \A i \in DOMAIN NamesOf(arg) : NamesOf(arg)[i] \in DOMAIN AGG_FN_CHOICES

\* The last -a value given for a key decides the key.
LastFor(key) ==
    argv_a[CHOOSE i \in DOMAIN argv_a :
              KeyOf(argv_a[i]) = key /\ \A j \in DOMAIN argv_a : j > i => KeyOf(argv_a[j]) # key]

\* C10: on the command line, KEY=V1,...,Vn with n >= 1 valid names
\* resolves for KEY to the function set with exactly the names V1..Vn, and
\* KEY=drop resolves to the drop marker so that KEY is not in the output;
\* no error is raised, also for a single name or the single keyword drop.
C10_KeyValueResolves ==
    (/\ cli.status \notin {"pending", "unused"}
     /\ argv_a # <<>>
     /\ \A i \in DOMAIN argv_a : WellFormed(argv_a[i])) =>
        /\ cli.status = "ok"
        /\ DOMAIN cli.agg_fns.d = {KeyOf(argv_a[i]) : i \in DOMAIN argv_a}
        /\ \A key \in DOMAIN cli.agg_fns.d :
              IF NamesOf(LastFor(key)) = <<DROP_KEYWORD>>
              THEN /\ IsNone(cli.agg_fns.d[key])
                   /\ ~IsNone(cli.stdout) => key \notin DOMAIN cli.stdout.d
              ELSE /\ ~IsNone(cli.agg_fns.d[key])
                   /\ cli.agg_fns.d[key].fns =
                         [n \in {NamesOf(LastFor(key))[i] : i \in DOMAIN NamesOf(LastFor(key))}
                             |-> AGG_FN_CHOICES[n]]

----------------------------------------------------------------------------
(* Calls of agg_json_values_by_key and aggregate_and_output_json on the    *)
(* files under a root.                                                     *)

\* agg_fns over the keys of the documents in the files.
JsonAggFnsChoices ==
    {PyNone} \cup
    {[tag |-> "dict", d |-> f] :
        f \in UNION {[S -> {PyNone, Fns((n_sum :> "sum") @@ (n_min :> "min"))}]
                        : S \in SUBSET CliKeys}}

JsonDefaultChoices == {PyNone, Fns(EmptyMap), Fns(n_list :> "identity")}

InitJson ==
    /\ fs \in FsChoices
    /\ patterns \in PatternLists
    /\ agg_fns \in JsonAggFnsChoices
    /\ default_agg_fns \in JsonDefaultChoices
    /\ agg_result = Pending
    /\ json_out = Pending
    /\ pc = "agg_json_values_by_key"
    /\ contents = Unused /\ table = Unused
    /\ dicts = Unused /\ merged = Unused /\ out_lib = Unused /\ out_json = Unused
    /\ nested_dict = Unused /\ delimiter = Unused /\ flat = Unused /\ reflat = Unused
    /\ matching_files = Unused
    /\ names = Unused /\ fn_set = Unused /\ argv_a = Unused /\ argv_d = Unused /\ cli = Unused

AggJsonValuesByKey ==
    /\ pc = "agg_json_values_by_key"
    /\ \E order \in Orders(UnionOfKeys(read_matching_jsons(fs, patterns))) :
          agg_result' = agg_json_values_by_key(fs, patterns, agg_fns, default_agg_fns, order)
    /\ pc' = "aggregate_and_output_json"
    /\ UNCHANGED <<aggVars, flattenVars, globVars, cliVars, json_out, contents, table>>

AggregateAndOutputJson ==
    /\ pc = "aggregate_and_output_json"
    /\ \E order \in Orders(UnionOfKeys(read_matching_jsons(fs, patterns))) :
          json_out' = aggregate_and_output_json(fs, patterns, agg_fns, default_agg_fns, order)
    /\ pc' = "done"
    /\ UNCHANGED <<aggVars, flattenVars, globVars, cliVars, agg_result, contents, table>>

NextJson == AggJsonValuesByKey \/ AggregateAndOutputJson

SpecJson == InitJson /\ [][NextJson]_vars

----------------------------------------------------------------------------
(* Properties of the calls on files.                                       *)

BothUnset == IsNone(agg_fns) /\ IsNone(default_agg_fns)

\* Some file under the root matches some pattern.
SomeFileMatches ==
    \E f \in DOMAIN fs : \E i \in DOMAIN patterns : GlobMatch(patterns[i], fs[f])

\* The call failed with the configuration error and gave nothing.
ConfigurationError(o) ==
    /\ o.status = "error" /\ o.exc = "ValueError"
    /\ DOMAIN o = {"status", "exc"}

\* C11 as stated: with both specs unset, agg_json_values_by_key and
\* aggregate_and_output_json fail with the configuration error and produce
\* no output, whatever files match, also when none does.
C11_BothUnsetFailsOnAnyFiles ==
    BothUnset =>
        /\ agg_result.status # "pending" => ConfigurationError(agg_result)
        /\ json_out.status # "pending" => ConfigurationError(json_out)

\* C11 as amended: with both specs unset, the two functions fail with the
\* configuration error and produce no output whenever at least one file
\* matches; when no file matches they raise nothing: the 'no matching
\* files' message goes to stderr, agg_json_values_by_key returns None and
\* nothing is printed.
C11_BothUnsetFailsWhenFilesMatch ==
    BothUnset =>
        /\ (agg_result.status # "pending" /\ SomeFileMatches) => ConfigurationError(agg_result)
        /\ (json_out.status # "pending" /\ SomeFileMatches) => ConfigurationError(json_out)
        /\ (agg_result.status # "pending" /\ ~SomeFileMatches) =>
              /\ agg_result.status = "ok" /\ IsNone(agg_result.value)
              /\ agg_result.stderr = "Found no files"
        /\ (json_out.status # "pending" /\ ~SomeFileMatches) =>
              /\ json_out.status = "ok" /\ IsNone(json_out.stdout)
              /\ json_out.stderr = "Found no files"

\* Both functions were called with both specs unset on a root where two
\* files match the patterns, and both failed.
C11_Witness ==
    /\ BothUnset
    /\ Cardinality({f \in DOMAIN fs : \E i \in DOMAIN patterns : GlobMatch(patterns[i], fs[f])}) = 2
    /\ agg_result.status = "error" /\ json_out.status = "error"

----------------------------------------------------------------------------
(* collect_json_to_csv.collect_json_to_csv and utils.all_keys.             *)
(* A path is the sequence of its parts, a part and a key a sequence of     *)
(* characters.  The table is what csv.DictWriter is given: the field       *)
(* names and, per row, the cell of each field.                             *)

\* ord() of the characters of the modelled keys and file names.
Ord ==
    ("." :> 46) @@ ("L" :> 76) @@ ("a" :> 97) @@ ("b" :> 98) @@ ("c" :> 99)
        @@ ("i" :> 105) @@ ("j" :> 106) @@ ("n" :> 110) @@ ("o" :> 111)
        @@ ("s" :> 115) @@ ("t" :> 116) @@ ("x" :> 120)

\* str.__lt__: lexicographic on the code points.
RECURSIVE StrLess(_, _)
StrLess(x, y) ==
    IF y = <<>> THEN FALSE
    ELSE IF x = <<>> THEN TRUE
    ELSE IF Head(x) # Head(y) THEN Ord[Head(x)] < Ord[Head(y)]
    ELSE StrLess(Tail(x), Tail(y))

\* PurePath.__lt__: lexicographic on the parts.
RECURSIVE PathLess(_, _)
PathLess(p, q) ==
    IF q = <<>> THEN FALSE
    ELSE IF p = <<>> THEN TRUE
    ELSE IF Head(p) # Head(q) THEN StrLess(Head(p), Head(q))
    ELSE PathLess(Tail(p), Tail(q))

\* _sorted_fn on a set of strings (sorted; natsorted orders keys without
\* digits the same way).
RECURSIVE SortedStrs(_)
SortedStrs(S) ==
    IF S = {} THEN <<>>
    ELSE LET m == CHOOSE x \in S : \A y \in S : ~StrLess(y, x)
         IN <<m>> \o SortedStrs(S \ {m})

\* _sorted_fn on the keys of location_to_contents, which are paths.
RECURSIVE SortedPaths(_)
SortedPaths(S) ==
    IF S = {} THEN <<>>
    ELSE LET m == CHOOSE x \in S : \A y \in S : ~PathLess(y, x)
         IN <<m>> \o SortedPaths(S \ {m})

\* all_keys: {k for d in dicts for k in d.keys()}
all_keys(ds) == UNION {DictKeys(ds[i]) : i \in DOMAIN ds}

\* dict.values() of an insertion-ordered dict.
DictValues(d) == [i \in DOMAIN d |-> d[i][2]]

LOCATION_COLUMN_NAME == <<"L", "o", "c", "a", "t", "i", "o", "n">>

\* The root directory and the paths multi_pattern_glob yields under it.
RootDir == << <<"r">> >>
PathsUnder(root, found) == [i \in DOMAIN found |-> root \o <<found[i]>>]

\* path.relative_to(root)
relative_to(path, root) == SubSeq(path, Len(root) + 1, Len(path))

\* The cell of a path and the cell of restval.
PathCell(location) == [path |-> location]
FillCell(restval) == [fill |-> restval]

\* {path.relative_to(root): flatten_dict(read_json(path)) for path in ...}
RECURSIVE LocationToContents(_, _, _, _)
LocationToContents(acc, root, found, docs) ==
    IF found = <<>> THEN acc
    ELSE LocationToContents(
            DictSet(acc, relative_to(Head(found), root),
                    flatten_dict(docs[Head(found)[Len(Head(found))]], PyNone, <<".">>)),
            root, Tail(found), docs)

\* for location, contents in ...: contents[_LOCATION_COLUMN_NAME] = location
SetLocations(location_to_contents) ==
    [i \in DOMAIN location_to_contents |->
        <<location_to_contents[i][1],
          DictSet(location_to_contents[i][2], LOCATION_COLUMN_NAME,
                  PathCell(location_to_contents[i][1]))>>]

\* DictWriter row: [rowdict.get(key, restval) for key in fieldnames]
DictToRow(rowdict, fieldnames, restval) ==
    [c \in DOMAIN fieldnames |->
        IF fieldnames[c] \in DictKeys(rowdict)
        THEN DictGet(rowdict, fieldnames[c])
        ELSE FillCell(restval)]

\* [_LOCATION_COLUMN_NAME] + _sorted_fn(all_keys(location_to_contents.values()))
ColumnNames(ds) == <<LOCATION_COLUMN_NAME>> \o SortedStrs(all_keys(ds))

\* collect_json_to_csv: nothing is written when no file matches.
collect_json_to_csv(root, paths, pats, docs, restval) ==
    LET found == PathsUnder(root, multi_pattern_glob(paths, pats))
        location_to_contents == LocationToContents(<<>>, root, found, docs)
    IN IF location_to_contents = <<>>
       THEN [status |-> "ok", stderr |-> "Found no files"]
       ELSE LET column_names == ColumnNames(DictValues(location_to_contents))
                located == SetLocations(location_to_contents)
                sorted_locations == SortedPaths(DictKeys(located))
            IN [status |-> "ok", stderr |-> "",
                header |-> column_names,
                rows |-> [r \in DOMAIN sorted_locations |->
                            DictToRow(DictGet(located, sorted_locations[r]),
                                      column_names, restval)]]

----------------------------------------------------------------------------
(* Calls of collect_json_to_csv.                                           *)

k_a == <<"a">>
k_b == <<"b">>

\* The documents a file may hold: flat, nested, empty, and one with a key
\* that is the name of the location column.
CsvDocuments ==
    { << <<k_a, [leaf |-> "1"]>> >>,
      << <<k_b, [map |-> << <<k_a, [leaf |-> "2"]>> >>]>>, <<k_a, [leaf |-> "3"]>> >>,
      << <<LOCATION_COLUMN_NAME, [leaf |-> "5"]>>, <<k_a, [leaf |-> "4"]>> >>,
      <<>> }

DefaultRestval == "-"

InitCsv ==
    /\ fs \in FsChoices
    /\ patterns \in PatternLists
    /\ contents \in [FileNames -> CsvDocuments]
    /\ table = Pending
    /\ pc = "collect_json_to_csv"
    /\ agg_result = Unused /\ json_out = Unused
    /\ dicts = Unused /\ agg_fns = Unused /\ default_agg_fns = Unused
    /\ merged = Unused /\ out_lib = Unused /\ out_json = Unused
    /\ nested_dict = Unused /\ delimiter = Unused /\ flat = Unused /\ reflat = Unused
    /\ matching_files = Unused
    /\ names = Unused /\ fn_set = Unused /\ argv_a = Unused /\ argv_d = Unused /\ cli = Unused

CollectJsonToCsv ==
    /\ pc = "collect_json_to_csv"
    /\ table' = collect_json_to_csv(RootDir, fs, patterns, contents, DefaultRestval)
    /\ pc' = "done"
    /\ UNCHANGED <<aggVars, flattenVars, globVars, cliVars, agg_result, json_out, contents>>

NextCsv == CollectJsonToCsv

SpecCsv == InitCsv /\ [][NextCsv]_vars

----------------------------------------------------------------------------
(* Properties of collect_json_to_csv.                                      *)

\* The distinct files under the root that match some pattern.
MatchedFiles ==
    {fs[f] : f \in {g \in DOMAIN fs : \E i \in DOMAIN patterns : GlobMatch(patterns[i], fs[g])}}

\* The flattened document of a file.
FlatOf(file) == flatten_dict(contents[file], PyNone, <<".">>)

\* The distinct flattened keys of the matched files.
FlattenedKeys == UNION {DictKeys(FlatOf(file)) : file \in MatchedFiles}

\* The columns of the table named name.
ColumnsNamed(name) == {c \in DOMAIN table.header : table.header[c] = name}

\* The rows of the table whose cell in column c is the path of file.
RowsOf(file, c) == {r \in DOMAIN table.rows : table.rows[r][c] = PathCell(<<file>>)}

\* C12: for every non-empty set of matched files the table has one row per
\* distinct matched file, exactly one column named Location holding the
\* file's path relative to root, and exactly one column per distinct
\* flattened key, in sorted order, whose cell is the file's value for the
\* key or the fill value; also when a document has a flattened key named
\* Location.
C12_TableOfRowsAndColumns ==
    (table.status = "ok" /\ MatchedFiles # {}) =>
        /\ "header" \in DOMAIN table
        /\ Len(table.rows) = Cardinality(MatchedFiles)
        /\ Cardinality(ColumnsNamed(LOCATION_COLUMN_NAME)) = 1
        /\ \A file \in MatchedFiles :
              \A c \in ColumnsNamed(LOCATION_COLUMN_NAME) : Cardinality(RowsOf(file, c)) = 1
        /\ \A k \in FlattenedKeys \ {LOCATION_COLUMN_NAME} : Cardinality(ColumnsNamed(k)) = 1
        /\ \A c \in DOMAIN table.header :
              table.header[c] \in FlattenedKeys \cup {LOCATION_COLUMN_NAME}
        /\ \A c, e \in DOMAIN table.header :
              (1 < c /\ c < e) => ~StrLess(table.header[e], table.header[c])
        /\ \A file \in MatchedFiles : \A k \in FlattenedKeys \ {LOCATION_COLUMN_NAME} :
              \A c \in ColumnsNamed(k) : \A r \in RowsOf(file, 1) :
                  table.rows[r][c] = IF k \in DictKeys(FlatOf(file))
                                     THEN DictGet(FlatOf(file), k)
                                     ELSE FillCell(DefaultRestval)

----------------------------------------------------------------------------
(* The whole program: any of its entry points, on any of their inputs.     *)

Init == InitAgg \/ InitFlatten \/ InitGlob \/ InitNames \/ InitCli \/ InitJson \/ InitCsv

Next == NextAgg \/ NextFlatten \/ NextGlob \/ NextNames \/ NextCli \/ NextJson \/ NextCsv

Spec == Init /\ [][Next]_vars

====
